---- MODULE Spec2Model ----
(***************************************************************************)
(* FileStack: the file-state store (src/renderer/store.ts and its          *)
(* asynchronous revision), the App-level save path through the main        *)
(* process, and the Markdown dialect codec.                                *)
(***************************************************************************)
EXTENDS Integers, Sequences, FiniteSets, TLC

(***************************************************************************)
(* Values.  File paths and file contents are JavaScript strings; a lookup  *)
(* of a missing key, and a key stored with no value, both read undefined.  *)
(* The empty string is a content like any other (an emptied file).         *)
(***************************************************************************)
Paths == {"p", "q"}

Contents == {"", "a", "b"}

undefined == "<undefined>"

Val == Contents \cup {undefined}

\* JavaScript truthiness of a string-or-undefined value: if (unsavedContent)
Truthy(v) == v # undefined /\ v # ""

(***************************************************************************)
(* Sequence helpers (arrays).                                              *)
(***************************************************************************)
Range(s) == {s[i] : i \in 1..Len(s)}

\* array.filter((f) => f !== file)
FilterOut(s, file) == SelectSeq(s, LAMBDA f : f # file)

\* [...new Set([...array, file])]: file is appended unless already a member
AddUnique(s, file) == IF file \in Range(s) THEN s ELSE Append(s, file)

(***************************************************************************)
(* A Record<string,string> object: its own keys in insertion order, and    *)
(* the value of each key (a key can be stored with the value undefined).   *)
(***************************************************************************)
EmptyObj == [keys |-> <<>>, val |-> [k \in Paths |-> undefined]]

\* obj[file]
Get(obj, file) == obj.val[file]

\* { ...obj, [file]: v }: an existing key keeps its place
Put(obj, file, v) ==
    [keys |-> AddUnique(obj.keys, file), val |-> [obj.val EXCEPT ![file] = v]]

\* const { [file]: removed, ...rest } = obj
Omit(obj, file) ==
    [keys |-> FilterOut(obj.keys, file), val |-> [obj.val EXCEPT ![file] = undefined]]

\* Object.keys(obj)
ObjectKeys(obj) == obj.keys

VARIABLES
    fileContents,    \* store: saved content per path (undefined: not loaded)
    unsavedChanges,  \* store: Record of pending edits
    dirtyFiles,      \* store: array of dirty paths
    lastCall,        \* the store operation that returned last, and its result
    electron,        \* whether window.electron (the IPC bridge) is available
    disk,            \* main process: content last written to each path
    calls,           \* asynchronous saves suspended at their await
    workspacePath,   \* main process: the open workspace, or null
    view,            \* codec: the view (title, files, content) to serialize
    markdown,        \* codec: the Markdown text produced by serialization
    parsed,          \* codec: what parsing the text returned
    stage,           \* codec: how far the round trip has got
    request,         \* configuration service: the call and its arguments
    outcome,         \* configuration service: what the call returned
    loads,           \* main process: loadFilestackConfig calls awaiting readFile
    sent,            \* main process: the last message sent on each channel
    editorModel,     \* FilestackEditorModel: its _state
    events           \* FilestackEditorModel: state-change events fired so far

storeVars == <<fileContents, unsavedChanges, dirtyFiles>>

asyncVars == <<electron, disk, calls>>

mainVars == <<workspacePath>>

codecVars == <<view, markdown, parsed, stage>>

serviceVars == <<request, outcome>>

ipcVars == <<loads, sent>>

modelVars == <<editorModel, events>>

vars == <<fileContents, unsavedChanges, dirtyFiles, lastCall, electron, disk, calls,
          workspacePath, view, markdown, parsed, stage, request, outcome,
          loads, sent, editorModel, events>>

null == "<null>"

\* Asynchronous saves that may be suspended at the same time
MaxInFlight == 1

\* op(file, arg) returned ret
Call(op, file, arg, ret) == [op |-> op, file |-> file, arg |-> arg, ret |-> ret]

\* Nothing loaded, nothing written yet
NoContents == [k \in Paths |-> undefined]

\* Nothing sent to the renderer yet
NoMessages == [workspaceOpened |-> "<null>", configLoaded |-> [from |-> "<null>"],
               configError |-> [from |-> "<null>"]]

\* No FilestackEditorModel constructed
NoModel == [configuration |-> <<>>, files |-> <<>>, activeFileIndex |-> 0]

\* No call of the configuration service
NoRequest == [op |-> "none"]

\* parseMarkdownFile's initial result: title = '', files = [], no content
NoView == [title |-> <<>>, files |-> <<>>, content |-> <<>>]

\* create<AppState>(...): the initial store, of the synchronous revision (no
\* save is ever suspended); main.ts has opened a workspace (the renderer
\* shows the editor only after 'workspace-opened')
StoreInit ==
    /\ fileContents = NoContents
    /\ unsavedChanges = EmptyObj
    /\ dirtyFiles = <<>>
    /\ lastCall = Call("init", "none", "none", "void")
    /\ electron = TRUE
    /\ disk = NoContents
    /\ calls = <<>>
    /\ workspacePath = "/workspace"
    /\ view = NoView
    /\ markdown = <<>>
    /\ parsed = NoView
    /\ stage = "idle"
    /\ request = NoRequest
    /\ outcome = NoRequest
    /\ loads = <<>>
    /\ sent = NoMessages
    /\ editorModel = NoModel
    /\ events = 0

\* The initial store of the asynchronous revision, with or without the IPC
\* bridge (window.electron)
AsyncInit ==
    /\ fileContents = NoContents
    /\ unsavedChanges = EmptyObj
    /\ dirtyFiles = <<>>
    /\ lastCall = Call("init", "none", "none", "void")
    /\ electron \in BOOLEAN
    /\ disk = NoContents
    /\ calls = <<>>
    /\ workspacePath = "/workspace"
    /\ view = NoView
    /\ markdown = <<>>
    /\ parsed = NoView
    /\ stage = "idle"
    /\ request = NoRequest
    /\ outcome = NoRequest
    /\ loads = <<>>
    /\ sent = NoMessages
    /\ editorModel = NoModel
    /\ events = 0

\* Editor.tsx: unsavedChanges[file] !== undefined ? unsavedChanges[file] : fileContents[file]
currentContent(file) ==
    IF Get(unsavedChanges, file) # undefined
    THEN Get(unsavedChanges, file)
    ELSE fileContents[file]

\* { ...state.fileContents, ...state.unsavedChanges }: every own key of the
\* second object overwrites, also a key whose value is undefined
SpreadOver(fc, obj) ==
    [k \in Paths |-> IF k \in Range(obj.keys) THEN obj.val[k] ELSE fc[k]]

(***************************************************************************)
(* The store operations shared by both revisions of the store.             *)
(***************************************************************************)
\* Mutation of setFileContents: loading a file also discards its pending edit.
setFileContentsDropsEdit(file, contents) ==
    /\ fileContents' = [fileContents EXCEPT ![file] = contents]
    /\ unsavedChanges' = Omit(unsavedChanges, file)
    /\ dirtyFiles' = FilterOut(dirtyFiles, file)
    /\ lastCall' = Call("setFileContents", file, contents, "void")

setFileContents(file, contents) ==
    /\ fileContents' = [fileContents EXCEPT ![file] = contents]
    /\ UNCHANGED <<unsavedChanges, dirtyFiles>>
    /\ lastCall' = Call("setFileContents", file, contents, "void")

\* Mutation of setUnsavedChanges: the edit is written through to the saved
\* content.
setUnsavedChangesWritesThrough(file, contents) ==
    /\ unsavedChanges' = Put(unsavedChanges, file, contents)
    /\ dirtyFiles' = AddUnique(dirtyFiles, file)
    /\ fileContents' = [fileContents EXCEPT ![file] = contents]
    /\ lastCall' = Call("setUnsavedChanges", file, contents, "void")

setUnsavedChanges(file, contents) ==
    /\ unsavedChanges' = Put(unsavedChanges, file, contents)
    /\ dirtyFiles' = AddUnique(dirtyFiles, file)
    /\ UNCHANGED fileContents
    /\ lastCall' = Call("setUnsavedChanges", file, contents, "void")

clearUnsavedChanges(file) ==
    /\ unsavedChanges' = Omit(unsavedChanges, file)
    /\ dirtyFiles' = FilterOut(dirtyFiles, file)
    /\ UNCHANGED fileContents
    /\ lastCall' = Call("clearUnsavedChanges", file, "none", "void")

markFileAsDirty(file) ==
    /\ dirtyFiles' = AddUnique(dirtyFiles, file)
    /\ UNCHANGED <<fileContents, unsavedChanges>>
    /\ lastCall' = Call("markFileAsDirty", file, "none", "void")

unmarkFileAsDirty(file) ==
    /\ dirtyFiles' = FilterOut(dirtyFiles, file)
    /\ UNCHANGED <<fileContents, unsavedChanges>>
    /\ lastCall' = Call("unmarkFileAsDirty", file, "none", "void")

\* Mutation of FoldSaved: the saved path is left in dirtyFiles.
FoldSavedKeepsDirty(file, unsavedContent) ==
    /\ fileContents' = [fileContents EXCEPT ![file] = unsavedContent]
    /\ unsavedChanges' = Put(unsavedChanges, file, undefined)
    /\ dirtyFiles' = dirtyFiles

\* The set(...) of saveFile: fold the captured content into fileContents,
\* store undefined under the key, drop the path from dirtyFiles.
FoldSaved(file, unsavedContent) ==
    /\ fileContents' = [fileContents EXCEPT ![file] = unsavedContent]
    /\ unsavedChanges' = Put(unsavedChanges, file, undefined)
    /\ dirtyFiles' = FilterOut(dirtyFiles, file)

\* The set(...) of saveAllFiles, on the state at the time of the set
FoldAllSaved ==
    /\ fileContents' = SpreadOver(fileContents, unsavedChanges)
    /\ unsavedChanges' = EmptyObj
    /\ dirtyFiles' = <<>>

(***************************************************************************)
(* The synchronous store, src/renderer/store.ts.                           *)
(***************************************************************************)
saveFile(file) ==
    /\ IF Truthy(Get(unsavedChanges, file))
       THEN FoldSaved(file, Get(unsavedChanges, file))
       ELSE UNCHANGED storeVars
    /\ lastCall' = Call("saveFile", file, "none", "void")

saveAllFiles ==
    /\ IF Len(ObjectKeys(unsavedChanges)) > 0
       THEN FoldAllSaved
       ELSE UNCHANGED storeVars
    /\ lastCall' = Call("saveAllFiles", "none", "none", "void")

StoreNext ==
    /\ \/ \E file \in Paths, contents \in Contents : setFileContents(file, contents)
       \/ \E file \in Paths, contents \in Contents : setUnsavedChanges(file, contents)
       \/ \E file \in Paths : clearUnsavedChanges(file)
       \/ \E file \in Paths : saveFile(file)
       \/ saveAllFiles
       \/ \E file \in Paths : markFileAsDirty(file)
       \/ \E file \in Paths : unmarkFileAsDirty(file)
    /\ UNCHANGED <<asyncVars, mainVars, codecVars, serviceVars, ipcVars, modelVars>>

SpecStore == StoreInit /\ [][StoreNext]_vars

(***************************************************************************)
(* The asynchronous store: saveFile and saveAllFiles write to disk through *)
(* electron.saveContentFile and await its answer before they update the    *)
(* store.  A suspended save is a record in calls: the file and content of  *)
(* the write it awaits, the writes still to come (saveAllFiles), and the   *)
(* answer once the main process has given it.                              *)
(***************************************************************************)
Replies == {"true", "false", "throw"}

\* A suspended save: the writes it makes, in order (<<file, content>> read
\* from the state at its start), the one it awaits, and the answer to it.
Suspended(kind, writes, idx) ==
    [kind |-> kind, writes |-> writes, idx |-> idx, reply |-> "pending"]

AwaitedFile(call) == call.writes[call.idx][1]

AwaitedContent(call) == call.writes[call.idx][2]

RemoveAt(s, i) == SubSeq(s, 1, i - 1) \o SubSeq(s, i + 1, Len(s))

\* Mutation of saveFile_settle: the store is updated whatever the write answered.
saveFile_settleIgnoresFailure(file, unsavedContent, reply) ==
    /\ FoldSaved(file, unsavedContent)
    /\ lastCall' = Call("saveFile", file, unsavedContent,
                        IF reply = "true" THEN "true" ELSE "false")

\* saveFile after its await: success updates the store and returns true; an
\* answer of false, or a rejection caught by the catch, returns false.
saveFile_settle(file, unsavedContent, reply) ==
    IF reply = "true"
    THEN /\ FoldSaved(file, unsavedContent)
         /\ lastCall' = Call("saveFile", file, unsavedContent, "true")
    ELSE /\ UNCHANGED storeVars
         /\ lastCall' = Call("saveFile", file, unsavedContent, "false")

\* saveFile up to its await
saveFile_async(file) ==
    LET unsavedContent == Get(unsavedChanges, file) IN
    IF ~Truthy(unsavedContent)
    THEN /\ UNCHANGED storeVars
         /\ UNCHANGED asyncVars
         /\ lastCall' = Call("saveFile", file, "none", "true")
    ELSE IF ~electron
    THEN /\ saveFile_settle(file, unsavedContent, "true")
         /\ UNCHANGED asyncVars
    ELSE /\ Len(calls) < MaxInFlight
         /\ calls' = Append(calls, Suspended("saveFile", <<<<file, unsavedContent>>>>, 1))
         /\ UNCHANGED <<storeVars, lastCall, electron, disk>>

\* ipcMain.handle('save-content-file'): the write succeeds and the handler
\* answers true, or it fails and the handler answers false; the invoke may
\* also reject.
saveContentFile(i, reply) ==
    /\ calls[i].reply = "pending"
    /\ calls' = [calls EXCEPT ![i].reply = reply]
    /\ disk' = IF reply = "true"
               THEN [disk EXCEPT ![AwaitedFile(calls[i])] = AwaitedContent(calls[i])]
               ELSE disk
    /\ UNCHANGED <<storeVars, lastCall, electron>>

\* saveFile resumed by the answer
saveFile_resume(i) ==
    /\ calls[i].kind = "saveFile"
    /\ calls[i].reply # "pending"
    /\ saveFile_settle(AwaitedFile(calls[i]), AwaitedContent(calls[i]), calls[i].reply)
    /\ calls' = RemoveAt(calls, i)
    /\ UNCHANGED <<electron, disk>>

\* The writes saveAllFiles will await: the entries of the state it read at
\* its start whose content is truthy, in key order.
TruthyEntries(obj) ==
    LET truthyKeys == SelectSeq(obj.keys, LAMBDA k : Truthy(obj.val[k]))
    IN  [j \in 1..Len(truthyKeys) |-> <<truthyKeys[j], obj.val[truthyKeys[j]]>>]

\* saveAllFiles up to its first await
saveAllFiles_async ==
    LET filesToSave == ObjectKeys(unsavedChanges)
        writes == TruthyEntries(unsavedChanges)
    IN
    IF Len(filesToSave) = 0
    THEN /\ UNCHANGED storeVars
         /\ UNCHANGED asyncVars
         /\ lastCall' = Call("saveAllFiles", "none", "none", "true")
    ELSE IF ~electron \/ Len(writes) = 0
    THEN /\ FoldAllSaved
         /\ UNCHANGED asyncVars
         /\ lastCall' = Call("saveAllFiles", "none", "none", "true")
    ELSE /\ Len(calls) < MaxInFlight
         /\ calls' = Append(calls, Suspended("saveAllFiles", writes, 1))
         /\ UNCHANGED <<storeVars, lastCall, electron, disk>>

\* saveAllFiles resumed by the answer to one write: a failure returns false
\* at once; after the last write the store is updated from its state then.
saveAllFiles_resume(i) ==
    /\ calls[i].kind = "saveAllFiles"
    /\ calls[i].reply # "pending"
    /\ IF calls[i].reply # "true"
       THEN /\ UNCHANGED storeVars
            /\ calls' = RemoveAt(calls, i)
            /\ lastCall' = Call("saveAllFiles", AwaitedFile(calls[i]), "none", "false")
       ELSE IF calls[i].idx = Len(calls[i].writes)
       THEN /\ FoldAllSaved
            /\ calls' = RemoveAt(calls, i)
            /\ lastCall' = Call("saveAllFiles", "none", "none", "true")
       ELSE /\ calls' = [calls EXCEPT ![i] =
                   Suspended("saveAllFiles", calls[i].writes, calls[i].idx + 1)]
            /\ UNCHANGED <<storeVars, lastCall>>
    /\ UNCHANGED <<electron, disk>>

\* The asynchronous store under edits and saves
AsyncNext ==
    /\ \/ /\ \E file \in Paths, contents \in Contents : setUnsavedChanges(file, contents)
          /\ UNCHANGED asyncVars
       \/ \E file \in Paths : saveFile_async(file)
       \/ saveAllFiles_async
       \/ \E i \in 1..Len(calls), reply \in Replies : saveContentFile(i, reply)
       \/ \E i \in 1..Len(calls) : saveFile_resume(i)
       \/ \E i \in 1..Len(calls) : saveAllFiles_resume(i)
    /\ UNCHANGED <<mainVars, codecVars, serviceVars, ipcVars, modelVars>>

SpecAsync == AsyncInit /\ [][AsyncNext]_vars

(***************************************************************************)
(* The App-level save: the Save button of App.tsx sends the saved content  *)
(* of every dirty file to the main process's 'save-files' handler and, when *)
(* the invoke resolves, unmarks the files it had sent.                     *)
(***************************************************************************)
\* App.handleSave up to the invoke: dirtyFiles and fileContents as rendered
handleSave ==
    /\ Len(dirtyFiles) > 0                     \* the button is disabled otherwise
    /\ Len(calls) < MaxInFlight
    /\ calls' = Append(calls,
          [kind |-> "saveFiles",
           dirtyFiles |-> dirtyFiles,
           filesToSave |-> [f \in Range(dirtyFiles) |-> fileContents[f]],
           reply |-> "pending",
           failed |-> {}])
    /\ UNCHANGED <<storeVars, lastCall, electron, disk, mainVars, codecVars, serviceVars, ipcVars, modelVars>>

\* ipcMain.handle('save-files'): with no workspace nothing is written;
\* otherwise each file is written in turn, a write that throws (the set
\* failing; always so for content undefined) is logged and skipped.  The
\* handler answers undefined in every case.
saveFilesHandler(i, failing) ==
    /\ calls[i].kind = "saveFiles"
    /\ calls[i].reply = "pending"
    /\ LET files == DOMAIN calls[i].filesToSave
           thrown == IF workspacePath = null
                     THEN {}
                     ELSE {f \in files : f \in failing \/ calls[i].filesToSave[f] = undefined}
           written == IF workspacePath = null THEN {} ELSE files \ thrown
       IN  /\ disk' = [f \in Paths |->
                         IF f \in written THEN calls[i].filesToSave[f] ELSE disk[f]]
           /\ calls' = [calls EXCEPT ![i].reply = "undefined",
                                     ![i].failed = files \ written]
    /\ UNCHANGED <<storeVars, lastCall, electron, mainVars, codecVars, serviceVars, ipcVars, modelVars>>

\* .then(() => dirtyFiles.forEach((file) => unmarkFileAsDirty(file)))
handleSave_then(i) ==
    /\ calls[i].kind = "saveFiles"
    /\ calls[i].reply # "pending"
    /\ dirtyFiles' = SelectSeq(dirtyFiles, LAMBDA f : f \notin Range(calls[i].dirtyFiles))
    /\ calls' = RemoveAt(calls, i)
    /\ lastCall' = Call("handleSave", "none", "none", calls[i].reply)
    /\ UNCHANGED <<fileContents, unsavedChanges, electron, disk, mainVars, codecVars, serviceVars, ipcVars, modelVars>>

\* The App under loads (setFileContents from 'get-workspace-file-contents'),
\* edits (the editor's setUnsavedChanges) and its Save button
AppNext ==
    \/ /\ \/ \E file \in Paths, contents \in Contents : setFileContents(file, contents)
          \/ \E file \in Paths, contents \in Contents : setUnsavedChanges(file, contents)
       /\ UNCHANGED <<asyncVars, mainVars, codecVars, serviceVars, ipcVars, modelVars>>
    \/ handleSave
    \/ \E i \in 1..Len(calls), failing \in SUBSET Paths : saveFilesHandler(i, failing)
    \/ \E i \in 1..Len(calls) : handleSave_then(i)

SpecApp == StoreInit /\ [][AppNext]_vars

(***************************************************************************)
(* The Markdown codec (renderer/utils/markdownParser).  A JavaScript       *)
(* string is the sequence of its characters, each a one-character string;  *)
(* the grave accent, which a TLA+ string cannot hold, is written backtick. *)
(***************************************************************************)
backtick == "<backtick>"

\* '```'
Fence == <<backtick, backtick, backtick>>

\* \s, as far as the texts of this model go
Whitespace == {" ", "\n"}

\* \w, as far as the texts of this model go
WordChars == {"a", "b", "c", "e", "f", "i", "l", "s", "t"}

RECURSIVE trimStart(_)
trimStart(s) ==
    IF s # <<>> /\ Head(s) \in Whitespace THEN trimStart(Tail(s)) ELSE s

RECURSIVE trimEnd(_)
trimEnd(s) ==
    IF s # <<>> /\ s[Len(s)] \in Whitespace
    THEN trimEnd(SubSeq(s, 1, Len(s) - 1))
    ELSE s

\* s.trim()
trim(s) == trimEnd(trimStart(s))

\* s.indexOf(c), counted from 1; 0 when c does not occur
indexOf(s, c) ==
    IF \E i \in 1..Len(s) : s[i] = c
    THEN CHOOSE i \in 1..Len(s) : s[i] = c /\ \A j \in 1..(i - 1) : s[j] # c
    ELSE 0

\* s.split(c): always at least one part
RECURSIVE split(_, _)
split(s, c) ==
    LET i == indexOf(s, c)
    IN  IF i = 0
        THEN <<s>>
        ELSE <<SubSeq(s, 1, i - 1)>> \o split(SubSeq(s, i + 1, Len(s)), c)

\* parts.join(sep)
RECURSIVE join(_, _)
join(parts, sep) ==
    IF parts = <<>> THEN <<>>
    ELSE IF Len(parts) = 1 THEN parts[1]
    ELSE parts[1] \o sep \o join(Tail(parts), sep)

\* s.startsWith(prefix)
startsWith(s, prefix) ==
    Len(s) >= Len(prefix) /\ SubSeq(s, 1, Len(prefix)) = prefix

\* c.repeat(n)
repeat(c, n) == [i \in 1..n |-> c]

\* The number of leading characters of s that belong to class
RECURSIVE leading(_, _)
leading(s, class) ==
    IF s # <<>> /\ Head(s) \in class THEN 1 + leading(Tail(s), class) ELSE 0

\* Mutation of monacoMatch: the file keeps the colon before it.
monacoMatchKeepsColon(trimmedLine) ==
    LET rest == SubSeq(trimmedLine, 4, Len(trimmedLine))
        colon == indexOf(rest, ":")
    IN  IF startsWith(trimmedLine, Fence) /\ colon > 1 /\ colon < Len(rest)
        THEN [ok |-> TRUE,
              language |-> SubSeq(rest, 1, colon - 1),
              file |-> SubSeq(rest, colon, Len(rest))]
        ELSE [ok |-> FALSE]

\* trimmedLine.match(/^```(\w+):(.+)$/): the language is the run of word
\* characters up to the first colon, the file everything after that colon
monacoMatch(trimmedLine) ==
    LET rest == SubSeq(trimmedLine, 4, Len(trimmedLine))
        colon == indexOf(rest, ":")
    IN  IF /\ startsWith(trimmedLine, Fence)
           /\ colon > 1
           /\ \A j \in 1..(colon - 1) : rest[j] \in WordChars
           /\ colon < Len(rest)
        THEN [ok |-> TRUE,
              language |-> SubSeq(rest, 1, colon - 1),
              file |-> SubSeq(rest, colon + 1, Len(rest))]
        ELSE [ok |-> FALSE]

\* Mutation of headingMatch: any number of hashes makes a heading.
headingMatchAnyLevel(trimmedLine) ==
    LET hashes == leading(trimmedLine, {"#"})
        afterHashes == SubSeq(trimmedLine, hashes + 1, Len(trimmedLine))
        spaces == leading(afterHashes, Whitespace)
        text == SubSeq(afterHashes, spaces + 1, Len(afterHashes))
    IN  IF hashes >= 1 /\ spaces >= 1 /\ text # <<>>
        THEN [ok |-> TRUE, level |-> hashes, text |-> trim(text)]
        ELSE [ok |-> FALSE]

\* trimmedLine.match(/^(#{1,6})\s+(.+)$/) and text.trim(): one to six
\* hashes, then whitespace, then a text (a trimmed line never ends in
\* whitespace, so the text is what follows the whitespace run)
headingMatch(trimmedLine) ==
    LET hashes == leading(trimmedLine, {"#"})
        afterHashes == SubSeq(trimmedLine, hashes + 1, Len(trimmedLine))
        spaces == leading(afterHashes, Whitespace)
        text == SubSeq(afterHashes, spaces + 1, Len(afterHashes))
    IN  IF hashes \in 1..6 /\ spaces >= 1 /\ text # <<>>
        THEN [ok |-> TRUE, level |-> hashes, text |-> trim(text)]
        ELSE [ok |-> FALSE]

\* trimmedLine.match(/^[-*+]\s+(.+)$/) and listMatch[1].trim()
listMatch(trimmedLine) ==
    LET afterBullet == Tail(trimmedLine)
        spaces == leading(afterBullet, Whitespace)
        text == SubSeq(afterBullet, spaces + 1, Len(afterBullet))
    IN  IF /\ trimmedLine # <<>>
           /\ Head(trimmedLine) \in {"-", "*", "+"}
           /\ spaces >= 1
           /\ text # <<>>
        THEN [ok |-> TRUE, item |-> trim(text)]
        ELSE [ok |-> FALSE]

\* The content items
Heading(level, text) == [type |-> "heading", level |-> level, text |-> text]

Paragraph(text) == [type |-> "paragraph", text |-> text]

List(items) == [type |-> "list", items |-> items]

Monaco(file, language, title) ==
    [type |-> "monaco", file |-> file, language |-> language, title |-> title]

\* if (currentList.length > 0) content.push({ type: 'list', items: currentList })
flushList(content, currentList) ==
    IF Len(currentList) > 0 THEN Append(content, List(currentList)) ELSE content

\* One turn of parseMarkdownToContent's loop over the lines
parseLine(st, line) ==
    LET trimmedLine == trim(line)
        match == monacoMatch(trimmedLine)
        heading == headingMatch(trimmedLine)
        listItem == listMatch(trimmedLine)
    IN  IF startsWith(trimmedLine, Fence) /\ ~st.inMonacoBlock /\ match.ok
        THEN [st EXCEPT !.inMonacoBlock = TRUE,
                        !.monacoBlockInfo =
                            Monaco(match.file, match.language,
                                   match.file \o <<" ", "E", "d", "i", "t", "o", "r">>)]
        ELSE IF trimmedLine = Fence /\ st.inMonacoBlock
        THEN [st EXCEPT !.inMonacoBlock = FALSE,
                        !.content = Append(@, st.monacoBlockInfo),
                        !.monacoBlockInfo = <<>>]
        ELSE IF st.inMonacoBlock
        THEN st
        ELSE IF heading.ok
        THEN [st EXCEPT !.content =
                            Append(flushList(st.content, st.currentList),
                                   Heading(heading.level, heading.text)),
                        !.currentList = <<>>]
        ELSE IF listItem.ok
        THEN [st EXCEPT !.currentList = Append(@, listItem.item)]
        ELSE IF Len(trimmedLine) > 0
        THEN [st EXCEPT !.content =
                            Append(flushList(st.content, st.currentList),
                                   Paragraph(trimmedLine)),
                        !.currentList = <<>>]
        ELSE st

RECURSIVE parseLines(_, _)
parseLines(st, lines) ==
    IF lines = <<>> THEN st ELSE parseLines(parseLine(st, Head(lines)), Tail(lines))

parseMarkdownToContent(text) ==
    LET st == parseLines([content |-> <<>>, currentList |-> <<>>,
                          inMonacoBlock |-> FALSE, monacoBlockInfo |-> <<>>],
                         split(text, "\n"))
    IN  flushList(st.content, st.currentList)

\* Mutation of itemLines: a heading is written without the space after its
\* hashes.
itemLinesHeadingNoSpace(item) ==
    (CASE item.type = "heading" ->
            <<repeat("#", item.level) \o item.text>>
       [] item.type = "paragraph" ->
            <<item.text>>
       [] item.type = "monaco" ->
            << Fence \o item.language \o <<":">> \o item.file,
               <<"/", "/", " ">> \o item.title,
               Fence >>
       [] item.type = "list" ->
            [i \in 1..Len(item.items) |-> <<"-", " ">> \o item.items[i]])
    \o << <<>> >>

\* The lines convertContentToMarkdown pushes for one item, and the '' after
itemLines(item) ==
    (CASE item.type = "heading" ->
            <<repeat("#", item.level) \o <<" ">> \o item.text>>
       [] item.type = "paragraph" ->
            <<item.text>>
       [] item.type = "monaco" ->
            << Fence \o item.language \o <<":">> \o item.file,
               <<"/", "/", " ">> \o item.title,
               Fence >>
       [] item.type = "list" ->
            [i \in 1..Len(item.items) |-> <<"-", " ">> \o item.items[i]])
    \o << <<>> >>

RECURSIVE contentLines(_)
contentLines(content) ==
    IF content = <<>> THEN <<>>
    ELSE itemLines(Head(content)) \o contentLines(Tail(content))

convertContentToMarkdown(content) == trim(join(contentLines(content), <<"\n">>))

\* JSON.stringify of one string: quoted, with quote and backslash escaped
RECURSIVE escape(_)
escape(s) ==
    IF s = <<>> THEN <<>>
    ELSE (IF Head(s) \in {"\"", "\\"} THEN <<"\\", Head(s)>> ELSE <<Head(s)>>)
         \o escape(Tail(s))

\* JSON.stringify(files), files an array of strings
JSONstringify(files) ==
    <<"[">>
    \o join([i \in 1..Len(files) |-> <<"\"">> \o escape(files[i]) \o <<"\"">>], <<",">>)
    \o <<"]">>

\* Reads a JSON string whose opening quote has been consumed: the string
\* read so far, up to its closing quote, and the text after it
RECURSIVE readString(_, _)
readString(s, acc) ==
    IF s = <<>> THEN [ok |-> FALSE]
    ELSE IF Head(s) = "\"" THEN [ok |-> TRUE, value |-> acc, rest |-> Tail(s)]
    ELSE IF Head(s) = "\\"
    THEN IF Len(s) >= 2 /\ s[2] \in {"\"", "\\"}
         THEN readString(Tail(Tail(s)), Append(acc, s[2]))
         ELSE [ok |-> FALSE]
    ELSE IF Head(s) = "\n" THEN [ok |-> FALSE]
    ELSE readString(Tail(s), Append(acc, Head(s)))

\* Reads the elements of a JSON array of strings, s standing at an element
RECURSIVE readElements(_, _)
readElements(s, acc) ==
    LET t == trimStart(s)
        str == readString(Tail(t), <<>>)
        after == trimStart(str.rest)
    IN  IF t = <<>> \/ Head(t) # "\"" THEN [ok |-> FALSE]
        ELSE IF ~str.ok \/ after = <<>> THEN [ok |-> FALSE]
        ELSE IF Head(after) = "," THEN readElements(Tail(after), Append(acc, str.value))
        ELSE IF Head(after) = "]" /\ trimStart(Tail(after)) = <<>>
        THEN [ok |-> TRUE, value |-> Append(acc, str.value)]
        ELSE [ok |-> FALSE]

\* JSON.parse(value), ok = FALSE when it throws.  The texts of this model
\* spell no JSON number, literal, object or bare string, so an array of
\* strings is the one JSON text that can reach it.
JSONparse(value) ==
    LET t == trimStart(value)
    IN  IF t = <<>> \/ Head(t) # "[" THEN [ok |-> FALSE]
        ELSE IF trim(Tail(t)) = <<"]">> THEN [ok |-> TRUE, value |-> <<>>]
        ELSE readElements(Tail(t), <<>>)

\* f.trim().replace(/['"]/g, '')
stripQuotes(f) == SelectSeq(trim(f), LAMBDA c : c \notin {"'", "\""})

\* try { JSON.parse(value) } catch { value.split(',').map(...) }
parseFiles(value) ==
    LET json == JSONparse(value)
        parts == split(value, ",")
    IN  IF json.ok THEN json.value
        ELSE [i \in 1..Len(parts) |-> stripQuotes(parts[i])]

\* One turn of parseMarkdownFile's loop over the lines: every line that
\* trims to '---' switches inFrontMatter
splitLine(st, line) ==
    IF trim(line) = <<"-", "-", "-">> /\ ~st.inFrontMatter
    THEN [st EXCEPT !.inFrontMatter = TRUE]
    ELSE IF trim(line) = <<"-", "-", "-">> /\ st.inFrontMatter
    THEN [st EXCEPT !.inFrontMatter = FALSE]
    ELSE IF st.inFrontMatter
    THEN [st EXCEPT !.frontMatterLines = Append(@, line)]
    ELSE [st EXCEPT !.contentLines = Append(@, line)]

RECURSIVE splitLines(_, _)
splitLines(st, lines) ==
    IF lines = <<>> THEN st ELSE splitLines(splitLine(st, Head(lines)), Tail(lines))

\* frontMatterLines.forEach: const [key, ...valueParts] = fmLine.split(':')
frontMatterLine(result, fmLine) ==
    LET parts == split(fmLine, ":")
        key == Head(parts)
        value == trim(join(Tail(parts), <<":">>))
    IN  IF key = <<"t", "i", "t", "l", "e">> THEN [result EXCEPT !.title = value]
        ELSE IF key = <<"f", "i", "l", "e", "s">>
        THEN [result EXCEPT !.files = parseFiles(value)]
        ELSE result

RECURSIVE frontMatter(_, _)
frontMatter(result, lines) ==
    IF lines = <<>> THEN result
    ELSE frontMatter(frontMatterLine(result, Head(lines)), Tail(lines))

parseMarkdownFile(markdownContent) ==
    LET st == splitLines([inFrontMatter |-> FALSE, frontMatterLines |-> <<>>,
                          contentLines |-> <<>>],
                         split(markdownContent, "\n"))
        header == frontMatter(NoView, st.frontMatterLines)
    IN  [header EXCEPT
            !.content = parseMarkdownToContent(join(st.contentLines, <<"\n">>))]

convertViewToMarkdown(title, files, content) ==
    join(<< <<"-", "-", "-">>,
            <<"t", "i", "t", "l", "e", ":", " ">> \o title,
            <<"f", "i", "l", "e", "s", ":", " ">> \o JSONstringify(files),
            <<"-", "-", "-">>,
            <<>> >>, <<"\n">>)
    \o convertContentToMarkdown(content)

(***************************************************************************)
(* The codec on views: a view is serialized, and the text parsed back,     *)
(* once as a body (convertContentToMarkdown, parseMarkdownToContent) and   *)
(* once as a whole file (convertViewToMarkdown, parseMarkdownFile).        *)
(***************************************************************************)
\* Items in a view's content
MaxItems == 2

\* Texts an author can type into a heading, a paragraph or a list item
Texts ==
    { <<"a">>,
      <<"b", " ", "c">>,
      <<"#", " ", "a">>,
      <<"-", " ", "a">>,
      <<"-", "-", "-">>,
      <<"t", "i", "t", "l", "e", ":", " ", "b">> }

\* Non-empty view titles
Titles == { <<"a">>, <<"b", " ", "c">> }

\* The files lists of a view
FileLists == { <<>>, << <<"f">> >> }

\* Content items of every supported construct: headings, paragraphs,
\* non-empty lists, and code references with the title the parser gives
\* ('f Editor') and with a title of the author's own
Items ==
    { Heading(1, <<"a">>), Heading(6, <<"b", " ", "c">>) }
    \cup { Paragraph(text) : text \in Texts }
    \cup { List(<< <<"a">> >>), List(<< <<"a">>, <<"b", " ", "c">> >>) }
    \cup { Monaco(<<"f">>, <<"t", "s">>, <<"f", " ", "E", "d", "i", "t", "o", "r">>),
           Monaco(<<"f">>, <<"t", "s">>, <<"t">>) }

\* ContentItem[] of at most MaxItems items
ContentLists == UNION { [1..n -> Items] : n \in 0..MaxItems }

CodecInit ==
    /\ fileContents = NoContents
    /\ unsavedChanges = EmptyObj
    /\ dirtyFiles = <<>>
    /\ lastCall = Call("init", "none", "none", "void")
    /\ electron = TRUE
    /\ disk = NoContents
    /\ calls = <<>>
    /\ workspacePath = "/workspace"
    /\ view \in [title : Titles, files : FileLists, content : ContentLists]
    /\ markdown = <<>>
    /\ parsed = NoView
    /\ stage = "view"
    /\ request = NoRequest
    /\ outcome = NoRequest
    /\ loads = <<>>
    /\ sent = NoMessages
    /\ editorModel = NoModel
    /\ events = 0

\* markdown = convertContentToMarkdown(content)
serializeBody ==
    /\ stage = "view"
    /\ markdown' = convertContentToMarkdown(view.content)
    /\ stage' = "body"
    /\ UNCHANGED <<view, parsed>>

\* parseMarkdownToContent(markdown)
parseBody ==
    /\ stage = "body"
    /\ parsed' = [parsed EXCEPT !.content = parseMarkdownToContent(markdown)]
    /\ stage' = "bodyParsed"
    /\ UNCHANGED <<view, markdown>>

\* markdown = convertViewToMarkdown(title, files, content)
serializeFile ==
    /\ stage = "view"
    /\ markdown' = convertViewToMarkdown(view.title, view.files, view.content)
    /\ stage' = "file"
    /\ UNCHANGED <<view, parsed>>

\* parseMarkdownFile(markdown)
parseFile ==
    /\ stage = "file"
    /\ parsed' = parseMarkdownFile(markdown)
    /\ stage' = "fileParsed"
    /\ UNCHANGED <<view, markdown>>

\* saveViewContent(view, content): the text handed to saveContentFile is
\* convertViewToMarkdown(view.title, [], content); the write's answer
\* decides between returning and throwing
saveViewContent(success) ==
    /\ stage = "view"
    /\ markdown' = convertViewToMarkdown(view.title, <<>>, view.content)
    /\ stage' = IF success THEN "saved" ELSE "saveFailed"
    /\ UNCHANGED <<view, parsed>>

CodecNext ==
    /\ \/ serializeBody
       \/ parseBody
       \/ serializeFile
       \/ parseFile
       \/ \E success \in BOOLEAN : saveViewContent(success)
    /\ UNCHANGED <<storeVars, lastCall, asyncVars, mainVars, serviceVars, ipcVars, modelVars>>

SpecCodec == CodecInit /\ [][CodecNext]_vars

(***************************************************************************)
(* The codec on texts: a Markdown text is parsed as a body                 *)
(* (parseMarkdownToContent), as a whole file (parseMarkdownFile), or       *)
(* loaded as the content file of a view (loadViewContent).                 *)
(***************************************************************************)
\* Lines in a text
MaxLines == 4

\* The lines a text is made of: the fences of a code reference to the file
\* p, an opening fence that names no file, a list line, a blank line, a
\* heading, a line of seven hashes, a paragraph, the front-matter delimiter
\* and a title line
Lines ==
    { Fence \o <<"t", "s", ":", "p">>,
      Fence,
      Fence \o <<"t", "s", ":">>,
      repeat("#", 7) \o <<" ", "a">>,
      <<"-", " ", "a">>,
      <<>>,
      <<"#", " ", "a">>,
      <<"b">>,
      <<"-", "-", "-">>,
      <<"t", "i", "t", "l", "e", ":", " ", "a">> }

\* Texts of at most MaxLines lines
Documents ==
    { join(doc, <<"\n">>) : doc \in UNION { [1..n -> Lines] : n \in 0..MaxLines } }

\* A path as the store and the disk know it: the string of its characters
RECURSIVE toKey(_)
toKey(s) == IF s = <<>> THEN "" ELSE Head(s) \o toKey(Tail(s))

\* validation.ts: MonacoBlockSchema, HeadingSchema, ParagraphSchema, ListSchema
ContentItemSchema(item) ==
    CASE item.type = "monaco" ->
            item.file # <<>> /\ item.language # <<>> /\ item.title # <<>>
      [] item.type = "heading" -> item.level \in 1..6 /\ item.text # <<>>
      [] item.type = "paragraph" -> item.text # <<>>
      [] item.type = "list" ->
            /\ Len(item.items) >= 1
            /\ \A i \in 1..Len(item.items) : item.items[i] # <<>>

\* validateParsedMarkdown(parsed) does not throw
validateParsedMarkdown(p) ==
    /\ p.title # <<>>
    /\ \A i \in 1..Len(p.files) : p.files[i] # <<>>
    /\ Len(p.content) >= 1
    /\ \A i \in 1..Len(p.content) : ContentItemSchema(p.content[i])

\* { type: 'text', text }
TextNode(text) == [type |-> "text", text |-> text]

convertToTipTapFormat(content) ==
    [i \in 1..Len(content) |->
        LET item == content[i]
        IN  CASE item.type = "heading" ->
                    [type |-> "heading", attrs |-> [level |-> item.level],
                     content |-> <<TextNode(item.text)>>]
              [] item.type = "paragraph" ->
                    [type |-> "paragraph", content |-> <<TextNode(item.text)>>]
              [] item.type = "monaco" ->
                    [type |-> "monacoBlock",
                     attrs |-> [file |-> item.file, language |-> item.language,
                                title |-> item.title]]
              [] item.type = "list" ->
                    [type |-> "bulletList",
                     content |-> [j \in 1..Len(item.items) |->
                                    [type |-> "listItem",
                                     content |-> <<TextNode(item.items[j])>>]]]
              [] OTHER ->
                    [type |-> "paragraph",
                     content |-> <<TextNode(<<"Unknown content type">>)>>]]

\* main.ts 'load-content-file': the content on disk, null when the file
\* cannot be read
loadContentFile(file) ==
    IF toKey(file) \in Paths /\ disk[toKey(file)] # undefined
    THEN disk[toKey(file)]
    ELSE null

\* loadReferencedFilesFromContent: every code reference whose file has
\* (truthy) content on disk is put into the store with setFileContents
RECURSIVE loadReferencedFilesFromContent(_, _)
loadReferencedFilesFromContent(fc, content) ==
    IF content = <<>> THEN fc
    ELSE LET item == Head(content)
             fileContent == loadContentFile(item.file)
         IN  loadReferencedFilesFromContent(
                 IF /\ item.type = "monaco"
                    /\ ContentItemSchema(item)
                    /\ fileContent # null
                    /\ fileContent # ""
                 THEN [fc EXCEPT ![toKey(item.file)] = fileContent]
                 ELSE fc,
                 Tail(content))

\* What a call returned: a value, or nothing because it threw
Returned(value) == [threw |-> FALSE, value |-> value]

Threw == [threw |-> TRUE]

ParseInit ==
    /\ fileContents = NoContents
    /\ unsavedChanges = EmptyObj
    /\ dirtyFiles = <<>>
    /\ lastCall = Call("init", "none", "none", "void")
    /\ electron = TRUE
    /\ disk \in {NoContents, [NoContents EXCEPT !["p"] = "a"]}
    /\ calls = <<>>
    /\ workspacePath = "/workspace"
    /\ view = NoView
    /\ markdown \in Documents
    /\ parsed = NoView
    /\ stage = "text"
    /\ request = NoRequest
    /\ outcome = NoRequest
    /\ loads = <<>>
    /\ sent = NoMessages
    /\ editorModel = NoModel
    /\ events = 0

\* parseMarkdownToContent(markdown)
parseText ==
    /\ stage = "text"
    /\ parsed' = [parsed EXCEPT !.content = parseMarkdownToContent(markdown)]
    /\ stage' = "textParsed"
    /\ UNCHANGED <<view, markdown, storeVars, lastCall>>

\* parseMarkdownFile(markdown)
parseTextFile ==
    /\ stage = "text"
    /\ parsed' = parseMarkdownFile(markdown)
    /\ stage' = "textFileParsed"
    /\ UNCHANGED <<view, markdown, storeVars, lastCall>>

\* loadViewContent(view), markdown being the text of the view's content
\* file: it throws when the bridge or the text is missing and when the
\* parsed file does not validate; otherwise it loads the referenced files
\* into the store and returns the content in TipTap format
loadViewContent ==
    /\ stage = "text"
    /\ LET found == electron /\ markdown # <<>>
           parsedFile == parseMarkdownFile(markdown)
           valid == found /\ validateParsedMarkdown(parsedFile)
       IN  /\ parsed' = IF found THEN parsedFile ELSE parsed
           /\ fileContents' =
                  IF valid
                  THEN loadReferencedFilesFromContent(fileContents, parsedFile.content)
                  ELSE fileContents
           /\ lastCall' =
                  Call("loadViewContent", "view.path", "none",
                       IF valid
                       THEN Returned(convertToTipTapFormat(parsedFile.content))
                       ELSE Threw)
    /\ stage' = "loaded"
    /\ UNCHANGED <<view, markdown, unsavedChanges, dirtyFiles>>

\* The content parsed from a text is serialized with
\* convertContentToMarkdown and the result parsed again
reparseText ==
    /\ stage = "textParsed"
    /\ LET text == convertContentToMarkdown(parsed.content)
       IN  /\ view' = [view EXCEPT !.content = parsed.content]
           /\ markdown' = text
           /\ parsed' = [parsed EXCEPT !.content = parseMarkdownToContent(text)]
    /\ stage' = "reparsed"
    /\ UNCHANGED <<storeVars, lastCall>>

ParseNext ==
    /\ \/ parseText
       \/ parseTextFile
       \/ loadViewContent
       \/ reparseText
    /\ UNCHANGED <<asyncVars, mainVars, serviceVars, ipcVars, modelVars>>

SpecParse == ParseInit /\ [][ParseNext]_vars

(***************************************************************************)
(* FilestackConfigurationService (workbench/contrib/filestack/common).     *)
(* Paths are sequences of characters.  A JSON text is given by what        *)
(* JSON.parse makes of it: it throws, or returns null, a number, or an     *)
(* object whose title and files are absent or hold the values below.       *)
(***************************************************************************)
MAX_FILES_IN_STACK == 50

SUPPORTED_FILE_EXTENSIONS ==
    { ".ts", ".js", ".tsx", ".jsx", ".json", ".md", ".html", ".css", ".scss", ".less",
      ".py", ".java", ".cpp", ".c", ".h", ".cs", ".php", ".rb", ".go", ".rs", ".swift",
      ".kt", ".scala", ".sql", ".xml", ".yaml", ".yml", ".toml", ".ini", ".cfg", ".conf" }

\* s.endsWith(suffix)
endsWith(s, suffix) ==
    Len(s) >= Len(suffix) /\ SubSeq(s, Len(s) - Len(suffix) + 1, Len(s)) = suffix

\* s.lastIndexOf(c), counted from 1; 0 when c does not occur
lastIndexOf(s, c) ==
    IF \E i \in 1..Len(s) : s[i] = c
    THEN CHOOSE i \in 1..Len(s) : s[i] = c /\ \A j \in (i + 1)..Len(s) : s[j] # c
    ELSE 0

UpperCase == <<"A", "B", "C", "D", "E", "F", "G", "H", "I", "J", "K", "L", "M",
               "N", "O", "P", "Q", "R", "S", "T", "U", "V", "W", "X", "Y", "Z">>

LowerCase == <<"a", "b", "c", "d", "e", "f", "g", "h", "i", "j", "k", "l", "m",
               "n", "o", "p", "q", "r", "s", "t", "u", "v", "w", "x", "y", "z">>

\* s.toLowerCase()
toLowerCase(s) ==
    [i \in 1..Len(s) |->
        IF \E k \in 1..Len(UpperCase) : UpperCase[k] = s[i]
        THEN LowerCase[CHOOSE k \in 1..Len(UpperCase) : UpperCase[k] = s[i]]
        ELSE s[i]]

joinPaths(basePath, relativePath) ==
    LET base == IF endsWith(basePath, <<"/">>)
                THEN SubSeq(basePath, 1, Len(basePath) - 1)
                ELSE basePath
        relative == IF startsWith(relativePath, <<"/">>)
                    THEN Tail(relativePath)
                    ELSE relativePath
    IN  base \o <<"/">> \o relative

\* Mutation of resolveFilePath: an absolute path is joined to the base too.
resolveFilePathJoinsAbsolute(path, basePath) == joinPaths(basePath, path)

resolveFilePath(path, basePath) ==
    IF startsWith(path, <<"/">>) THEN path
    ELSE IF startsWith(path, <<".", "/">>) \/ startsWith(path, <<".", ".", "/">>)
    THEN joinPaths(basePath, path)
    ELSE joinPaths(basePath, path)

getFileExtension(filePath) ==
    LET lastDotIndex == lastIndexOf(filePath, ".")
    IN  IF lastDotIndex = 0 THEN ""
        ELSE toKey(toLowerCase(SubSeq(filePath, lastDotIndex, Len(filePath))))

isSupportedFileType(filePath) ==
    getFileExtension(filePath) \in SUPPORTED_FILE_EXTENSIONS

\* JavaScript values inside a parsed JSON object
Str(v) == [typeof |-> "string", v |-> v]

Num(n) == [typeof |-> "number", n |-> n]

Arr(v) == [typeof |-> "object", isArray |-> TRUE, v |-> v]

Missing == [typeof |-> "undefined"]

\* !value
Falsy(value) ==
    \/ value.typeof = "undefined"
    \/ value.typeof = "string" /\ value.v = <<>>
    \/ value.typeof = "number" /\ value.n = 0

\* Array.isArray(value)
isArray(value) == value.typeof = "object" /\ value.isArray

\* A FilestackError
FilestackError(type, message) == [type |-> type, message |-> message]

\* typeof filePath !== 'string' for no entry of config.files
AllStrings(files) == \A i \in 1..Len(files) : files[i].typeof = "string"

\* Mutation of parseConfiguration's length check: the limit itself is
\* rejected
TooManyFilesAtLimit(files) == Len(files) >= MAX_FILES_IN_STACK

\* config.files.length > MAX_FILES_IN_STACK
TooManyFiles(files) == Len(files) > MAX_FILES_IN_STACK

parseConfiguration(content, basePath) ==
    IF content.json = "invalid"
    THEN [type |-> "INVALID_CONFIGURATION", message |-> "Invalid JSON configuration",
          originalError |-> "SyntaxError"]
    ELSE IF content.json = "null"
    THEN [type |-> "INVALID_CONFIGURATION", message |-> "Invalid JSON configuration",
          originalError |-> "TypeError"]
    ELSE
    LET config == IF content.json = "object"
                  THEN content
                  ELSE [title |-> Missing, files |-> Missing]
    IN  IF Falsy(config.title) \/ config.title.typeof # "string"
        THEN FilestackError("INVALID_CONFIGURATION",
                            "Configuration must have a valid \"title\" field")
        ELSE IF ~isArray(config.files)
        THEN FilestackError("INVALID_CONFIGURATION",
                            "Configuration must have a \"files\" array")
        ELSE IF Len(config.files.v) = 0
        THEN FilestackError("INVALID_CONFIGURATION",
                            "Configuration must have at least one file")
        ELSE IF TooManyFiles(config.files.v)
        THEN FilestackError("INVALID_CONFIGURATION",
                            "Configuration cannot have more than "
                            \o ToString(MAX_FILES_IN_STACK) \o " files")
        ELSE IF ~AllStrings(config.files.v)
        THEN FilestackError("INVALID_CONFIGURATION", "All file paths must be strings")
        ELSE [title |-> config.title.v,
              files |-> [i \in 1..Len(config.files.v) |->
                            resolveFilePath(config.files.v[i].v, basePath)]]

\* for (const filePath of configuration.files): one error for each entry
\* that is not of a supported type
RECURSIVE UnsupportedErrors(_)
UnsupportedErrors(files) ==
    IF files = <<>> THEN <<>>
    ELSE (IF isSupportedFileType(Head(files)) THEN <<>>
          ELSE << [type |-> "UNSUPPORTED_FILE_TYPE",
                   message |-> "Unsupported file type: " \o toKey(Head(files)),
                   filePath |-> Head(files)] >>)
         \o UnsupportedErrors(Tail(files))

\* Mutation of validateConfigurationStructure: file types are checked,
\* duplicates are not.
validateConfigurationStructureTypesOnly(configuration) ==
    UnsupportedErrors(configuration.files)

validateConfigurationStructure(configuration) ==
    (IF Cardinality(Range(configuration.files)) # Len(configuration.files)
     THEN << FilestackError("INVALID_CONFIGURATION",
                            "Configuration contains duplicate file paths") >>
     ELSE <<>>)
    \o UnsupportedErrors(configuration.files)

(***************************************************************************)
(* The configuration service under calls: each behaviour makes one call    *)
(* of resolveFilePath, parseConfiguration or                               *)
(* validateConfigurationStructure.                                         *)
(***************************************************************************)
\* Length of the files arrays that are listed entry by entry
MaxListed == 2

\* '/a.ts', './a.ts', '../a.ts', 'a.ts', 'a.txt', 'a', 'A.TS'
FilePathList ==
    << <<"/", "a", ".", "t", "s">>,
       <<".", "/", "a", ".", "t", "s">>,
       <<".", ".", "/", "a", ".", "t", "s">>,
       <<"a", ".", "t", "s">>,
       <<"a", ".", "t", "x", "t">>,
       <<"a">>,
       <<"A", ".", "T", "S">> >>

FilePaths == Range(FilePathList)

\* '/w', '/w/', '/'
BasePaths == { <<"/", "w">>, <<"/", "w", "/">>, <<"/">> }

\* n paths, taken from FilePathList in turn
PathsInTurn(n) == [i \in 1..n |-> FilePathList[((i - 1) % Len(FilePathList)) + 1]]

\* Arrays of paths: every array of at most MaxListed paths, and the arrays
\* of MAX_FILES_IN_STACK and MAX_FILES_IN_STACK + 1 paths taken in turn
PathArrays ==
    UNION { [1..n -> FilePaths] : n \in 0..MaxListed }
    \cup { PathsInTurn(n) : n \in {MAX_FILES_IN_STACK, MAX_FILES_IN_STACK + 1} }

\* Entries of a files array in a JSON text: strings and a number
FileEntries == { Str(path) : path \in FilePaths } \cup { Num(123) }

\* files arrays in a JSON text: the short ones, the long ones, and the long
\* ones with a number as the last entry
FileArrays ==
    UNION { [1..n -> FileEntries] : n \in 0..MaxListed }
    \cup { [i \in 1..n |-> Str(PathsInTurn(n)[i])] :
              n \in {MAX_FILES_IN_STACK, MAX_FILES_IN_STACK + 1} }
    \cup { [i \in 1..n |-> IF i = n THEN Num(123) ELSE Str(PathsInTurn(n)[i])] :
              n \in {MAX_FILES_IN_STACK, MAX_FILES_IN_STACK + 1} }

\* What JSON.parse makes of the content
JSONContents ==
    { [json |-> "invalid"], [json |-> "null"], [json |-> "number"] }
    \cup [json : {"object"},
          title : {Missing, Str(<<>>), Str(<<"T">>), Num(5)},
          files : {Missing, Str(<<"a", ".", "t", "s">>)}
                  \cup { Arr(files) : files \in FileArrays }]

Requests ==
    [op : {"resolveFilePath"}, path : FilePaths, basePath : BasePaths]
    \cup [op : {"parseConfiguration"}, content : JSONContents, basePath : BasePaths]
    \cup [op : {"validateConfigurationStructure"},
          configuration : [title : {<<"T">>}, files : PathArrays]]

ConfigInit ==
    /\ fileContents = NoContents
    /\ unsavedChanges = EmptyObj
    /\ dirtyFiles = <<>>
    /\ lastCall = Call("init", "none", "none", "void")
    /\ electron = TRUE
    /\ disk = NoContents
    /\ calls = <<>>
    /\ workspacePath = "/workspace"
    /\ view = NoView
    /\ markdown = <<>>
    /\ parsed = NoView
    /\ stage = "idle"
    /\ request \in Requests
    /\ outcome = NoRequest
    /\ loads = <<>>
    /\ sent = NoMessages
    /\ editorModel = NoModel
    /\ events = 0

callResolveFilePath ==
    /\ request.op = "resolveFilePath"
    /\ outcome = NoRequest
    /\ outcome' = Returned(resolveFilePath(request.path, request.basePath))
    /\ UNCHANGED request

callParseConfiguration ==
    /\ request.op = "parseConfiguration"
    /\ outcome = NoRequest
    /\ outcome' = Returned(parseConfiguration(request.content, request.basePath))
    /\ UNCHANGED request

callValidateConfigurationStructure ==
    /\ request.op = "validateConfigurationStructure"
    /\ outcome = NoRequest
    /\ outcome' = Returned(validateConfigurationStructure(request.configuration))
    /\ UNCHANGED request

ConfigNext ==
    /\ \/ callResolveFilePath
       \/ callParseConfiguration
       \/ callValidateConfigurationStructure
    /\ UNCHANGED <<storeVars, lastCall, asyncVars, mainVars, codecVars, ipcVars, modelVars>>

SpecConfig == ConfigInit /\ [][ConfigNext]_vars

(***************************************************************************)
(* Projecting a view's content to document nodes: buildContentFromView of  *)
(* the renderer, next to convertToTipTapFormat above.  The content of a    *)
(* view comes from the manifest, so an item can carry any type.            *)
(***************************************************************************)
\* An item whose type is none of heading, paragraph, monaco and list
UnknownItem == [type |-> "table"]

\* The text of the placeholder paragraph
UnknownContentType == <<"Unknown content type">>

\* switch (item.type) of buildContentFromView: the nodes pushed for one
\* item; the switch has no default case
buildContentFromView_push(item) ==
    CASE item.type = "heading" ->
            <<[type |-> "heading", attrs |-> [level |-> item.level],
               content |-> <<TextNode(item.text)>>]>>
      [] item.type = "paragraph" ->
            <<[type |-> "paragraph", content |-> <<TextNode(item.text)>>]>>
      [] item.type = "monaco" ->
            <<[type |-> "monacoBlock",
               attrs |-> [file |-> item.file, language |-> item.language,
                          title |-> item.title]]>>
      [] item.type = "list" ->
            <<[type |-> "bulletList",
               content |-> [j \in 1..Len(item.items) |->
                              [type |-> "listItem",
                               content |-> <<TextNode(item.items[j])>>]]]>>
      [] OTHER -> <<>>

\* currentView.content?.forEach(...)
RECURSIVE buildContentFromView(_)
buildContentFromView(content) ==
    IF content = <<>> THEN <<>>
    ELSE buildContentFromView_push(Head(content))
             \o buildContentFromView(Tail(content))

\* The content lists a view can carry
ViewItems == Items \cup {UnknownItem}

ViewContents == UNION { [1..n -> ViewItems] : n \in 0..MaxItems }

ProjectInit ==
    /\ fileContents = NoContents
    /\ unsavedChanges = EmptyObj
    /\ dirtyFiles = <<>>
    /\ lastCall = Call("init", "none", "none", "void")
    /\ electron = TRUE
    /\ disk = NoContents
    /\ calls = <<>>
    /\ workspacePath = "/workspace"
    /\ view \in [title : {<<>>}, files : {<<>>}, content : ViewContents]
    /\ markdown = <<>>
    /\ parsed = NoView
    /\ stage = "view"
    /\ request = NoRequest
    /\ outcome = NoRequest
    /\ loads = <<>>
    /\ sent = NoMessages
    /\ editorModel = NoModel
    /\ events = 0

callConvertToTipTapFormat ==
    /\ stage = "view"
    /\ stage' = "projected"
    /\ lastCall' = Call("convertToTipTapFormat", "content", "none",
                        Returned(convertToTipTapFormat(view.content)))
    /\ UNCHANGED <<view, markdown, parsed>>

callBuildContentFromView ==
    /\ stage = "view"
    /\ stage' = "projected"
    /\ lastCall' = Call("buildContentFromView", "content", "none",
                        Returned(buildContentFromView(view.content)))
    /\ UNCHANGED <<view, markdown, parsed>>

ProjectNext ==
    /\ \/ callConvertToTipTapFormat
       \/ callBuildContentFromView
    /\ UNCHANGED <<storeVars, asyncVars, mainVars, serviceVars, ipcVars, modelVars>>

SpecProject == ProjectInit /\ [][ProjectNext]_vars

(***************************************************************************)
(* The main process (main.ts): opening a workspace, loading its manifest   *)
(* filestack.json, and the 'get-workspace-file-contents' handler.          *)
(***************************************************************************)
\* loadFilestackConfig calls that may await their readFile at the same time
MaxLoads == 2

\* A view of a manifest, as JSON.parse returns it
ManifestView(title) == [title |-> title, files |-> Arr(<<Str("p")>>)]

\* The directories the user can pick, and what reading filestack.json in
\* each gives: two valid manifests, a manifest whose second view has a
\* number as title, a manifest without views, a text that is not JSON, and
\* no file
Workspaces == {"/one", "/two", "/mixed", "/noviews", "/broken", "/empty"}

filestackJson(workspace) ==
    CASE workspace = "/one" ->
            [read |-> TRUE, json |-> "object",
             views |-> Arr(<<ManifestView(Str("One"))>>)]
      [] workspace = "/two" ->
            [read |-> TRUE, json |-> "object",
             views |-> Arr(<<ManifestView(Str("Two"))>>)]
      [] workspace = "/mixed" ->
            [read |-> TRUE, json |-> "object",
             views |-> Arr(<<ManifestView(Str("Three")), ManifestView(Num(3))>>)]
      [] workspace = "/noviews" ->
            [read |-> TRUE, json |-> "object", views |-> Missing]
      [] workspace = "/broken" ->
            [read |-> TRUE, json |-> "invalid"]
      [] workspace = "/empty" ->
            [read |-> FALSE]

\* types.ts ViewSchema: title a string, files an array of strings
ViewSchema(v) ==
    /\ v.title.typeof = "string"
    /\ isArray(v.files)
    /\ AllStrings(v.files.v)

\* ConfigSchema.safeParse(config).success: views an array of views
ConfigSchema(config) ==
    /\ isArray(config.views)
    /\ \A i \in 1..Len(config.views.v) : ViewSchema(config.views.v[i])

\* A message that came from the load of a workspace
ConfigLoaded(workspace, views) == [from |-> workspace, views |-> views]

ConfigError(workspace) ==
    [from |-> workspace, message |-> "Could not read or parse filestack.json"]

\* What loadFilestackConfig sends once readFile has settled: the validated
\* views, or the views of the raw config when validation fails, or
\* 'config-error' when the file cannot be read or parsed
loadFilestackConfig_send(workspace) ==
    LET file == filestackJson(workspace)
    IN  IF ~file.read \/ file.json = "invalid"
        THEN [sent EXCEPT !.configError = ConfigError(workspace)]
        ELSE [sent EXCEPT !.configLoaded = ConfigLoaded(workspace, file.views)]

MainInit ==
    /\ fileContents = NoContents
    /\ unsavedChanges = EmptyObj
    /\ dirtyFiles = <<>>
    /\ lastCall = Call("init", <<>>, "none", EmptyObj)
    /\ electron = TRUE
    /\ disk \in [Paths -> {undefined, "a"}]
    /\ calls = <<>>
    /\ workspacePath = null
    /\ view = NoView
    /\ markdown = <<>>
    /\ parsed = NoView
    /\ stage = "idle"
    /\ request = NoRequest
    /\ outcome = NoRequest
    /\ loads = <<>>
    /\ sent = NoMessages
    /\ editorModel = NoModel
    /\ events = 0

\* ipcMain.on('open-workspace') and the menu's Open Workspace, once the
\* dialog has closed with filePaths: the workspace is taken over, announced,
\* and its manifest load started
openWorkspace(filePaths) ==
    /\ Len(loads) < MaxLoads
    /\ IF Len(filePaths) > 0
       THEN /\ workspacePath' = filePaths[1]
            /\ sent' = [sent EXCEPT !.workspaceOpened = filePaths[1]]
            /\ loads' = Append(loads, [workspacePath |-> filePaths[1]])
       ELSE UNCHANGED <<workspacePath, sent, loads>>
    /\ UNCHANGED <<lastCall, disk>>

\* loadFilestackConfig after its await fs.readFile
loadFilestackConfig_resume(i) ==
    /\ sent' = loadFilestackConfig_send(loads[i].workspacePath)
    /\ loads' = RemoveAt(loads, i)
    /\ UNCHANGED <<workspacePath, lastCall, disk>>

\* Mutation of readResult: no placeholder for a file that cannot be read.
readResultNoPlaceholder(file) == disk[file]

\* try { content = await fs.readFile(...) } catch: the content, or the
\* placeholder text
readResult(file) ==
    IF disk[file] # undefined THEN disk[file] ELSE "Error reading file: ENOENT"

\* for (const file of files) fileContents[file] = ...
RECURSIVE readWorkspaceFiles(_, _)
readWorkspaceFiles(obj, files) ==
    IF files = <<>> THEN obj
    ELSE readWorkspaceFiles(
             [keys |-> AddUnique(obj.keys, Head(files)),
              val |-> [obj.val EXCEPT ![Head(files)] = readResult(Head(files))]],
             Tail(files))

\* ipcMain.handle('get-workspace-file-contents')
getWorkspaceFileContents(files) ==
    /\ lastCall' = Call("get-workspace-file-contents", files, "none",
                        IF workspacePath = null
                        THEN EmptyObj
                        ELSE readWorkspaceFiles(EmptyObj, files))
    /\ UNCHANGED <<workspacePath, sent, loads, disk>>

\* Arrays of at most two requested files
FileRequests == UNION { [1..n -> Paths] : n \in 0..2 }

MainNext ==
    /\ \/ \E w \in Workspaces : openWorkspace(<<w>>)
       \/ openWorkspace(<<>>)
       \/ \E i \in 1..Len(loads) : loadFilestackConfig_resume(i)
       \/ \E files \in FileRequests : getWorkspaceFileContents(files)
    /\ UNCHANGED <<storeVars, electron, calls, codecVars, serviceVars, modelVars>>

SpecMain == MainInit /\ [][MainNext]_vars

(***************************************************************************)
(* FilestackEditorModel (workbench/contrib/filestack/browser).  Indices    *)
(* are those of the code, from 0; events counts the state-change events    *)
(* fired by _notifyStateChange.                                            *)
(***************************************************************************)
\* The most files a configuration lists, and the most events counted
MaxFiles == 3

MaxEvents == 4

\* The paths a configuration can list, in order
ConfiguredFiles == [i \in 1..MaxFiles |-> "file" \o ToString(i) \o ".ts"]

Configurations == { SubSeq(ConfiguredFiles, 1, n) : n \in 0..MaxFiles }

\* The placeholder content loadFiles gives every file
Placeholder == "// File"

\* The file loadFiles pushes for a path
FilestackFile(filePath) == [path |-> filePath, content |-> Placeholder, isDirty |-> FALSE]

\* fileIndex >= 0 && fileIndex < this._state.files.length
ValidIndex(fileIndex) == fileIndex >= 0 /\ fileIndex < Len(editorModel.files)

ModelInit ==
    /\ fileContents = NoContents
    /\ unsavedChanges = EmptyObj
    /\ dirtyFiles = <<>>
    /\ lastCall = Call("init", 0, "none", "void")
    /\ electron = TRUE
    /\ disk = NoContents
    /\ calls = <<>>
    /\ workspacePath = "/workspace"
    /\ view = NoView
    /\ markdown = <<>>
    /\ parsed = NoView
    /\ stage = "idle"
    /\ request = NoRequest
    /\ outcome = NoRequest
    /\ loads = <<>>
    /\ sent = NoMessages
    /\ editorModel \in { [configuration |-> c, files |-> <<>>, activeFileIndex |-> 0] :
                           c \in Configurations }
    /\ events = 0

\* loadFiles(): a placeholder file for every configured path; no error arises
loadFiles ==
    /\ events < MaxEvents
    /\ editorModel' =
          [editorModel EXCEPT !.files =
              [i \in 1..Len(editorModel.configuration) |->
                  FilestackFile(editorModel.configuration[i])]]
    /\ events' = events + 1
    /\ lastCall' = Call("loadFiles", 0, "none", "[]")

\* Mutation of navigateToFile: the index is not checked against the length.
navigateToFileNoUpperBound(fileIndex, caller) ==
    IF fileIndex >= 0
    THEN /\ events < MaxEvents
         /\ editorModel' = [editorModel EXCEPT !.activeFileIndex = fileIndex]
         /\ events' = events + 1
         /\ lastCall' = Call(caller, fileIndex, "none", "true")
    ELSE /\ UNCHANGED <<editorModel, events>>
         /\ lastCall' = Call(caller, fileIndex, "none", "false")

\* navigateToFile(fileIndex), called directly or by navigateToNextFile and
\* navigateToPreviousFile
navigateToFile(fileIndex, caller) ==
    IF ValidIndex(fileIndex)
    THEN /\ events < MaxEvents
         /\ editorModel' = [editorModel EXCEPT !.activeFileIndex = fileIndex]
         /\ events' = events + 1
         /\ lastCall' = Call(caller, fileIndex, "none", "true")
    ELSE /\ UNCHANGED <<editorModel, events>>
         /\ lastCall' = Call(caller, fileIndex, "none", "false")

navigateToNextFile ==
    navigateToFile(editorModel.activeFileIndex + 1, "navigateToNextFile")

navigateToPreviousFile ==
    navigateToFile(editorModel.activeFileIndex - 1, "navigateToPreviousFile")

\* updateFileContent(fileIndex, content)
updateFileContent(fileIndex, content) ==
    IF ValidIndex(fileIndex)
    THEN /\ events < MaxEvents
         /\ editorModel' =
               [editorModel EXCEPT !.files[fileIndex + 1].content = content,
                                   !.files[fileIndex + 1].isDirty = TRUE]
         /\ events' = events + 1
         /\ lastCall' = Call("updateFileContent", fileIndex, content, "true")
    ELSE /\ UNCHANGED <<editorModel, events>>
         /\ lastCall' = Call("updateFileContent", fileIndex, content, "false")

\* FilestackEditorModel.saveFile(fileIndex): the file is marked clean; an
\* invalid index gives the error 'Invalid file index'
saveModelFile(fileIndex) ==
    IF ValidIndex(fileIndex)
    THEN /\ events < MaxEvents
         /\ editorModel' = [editorModel EXCEPT !.files[fileIndex + 1].isDirty = FALSE]
         /\ events' = events + 1
         /\ lastCall' = Call("saveFile", fileIndex, "none", "null")
    ELSE /\ UNCHANGED <<editorModel, events>>
         /\ lastCall' = Call("saveFile", fileIndex, "none", "Invalid file index")

\* The indices a caller passes
FileIndices == -1..MaxFiles

ModelNext ==
    /\ \/ loadFiles
       \/ \E fileIndex \in FileIndices : navigateToFile(fileIndex, "navigateToFile")
       \/ navigateToNextFile
       \/ navigateToPreviousFile
       \/ \E fileIndex \in FileIndices : updateFileContent(fileIndex, "x")
       \/ \E fileIndex \in FileIndices : saveModelFile(fileIndex)
    /\ UNCHANGED <<storeVars, asyncVars, mainVars, codecVars, serviceVars, ipcVars>>

SpecEditorModel == ModelInit /\ [][ModelNext]_vars

(***************************************************************************)
(* Properties of the store.                                                *)
(***************************************************************************)
IsDirty(file) == file \in Range(dirtyFiles)

HasUnsaved(file) == Get(unsavedChanges, file) # undefined

DirtyIffUnsaved(file) == IsDirty(file) <=> HasUnsaved(file)

MarkOps == {"markFileAsDirty", "unmarkFileAsDirty"}

SaveOps == {"saveFile", "saveAllFiles"}

\* C1 (as claimed): the dirty-state law, one step at a time.  From a path
\* with no pending edit, setFileContents(p, X) leaves currentContent(p) = X
\* and p as dirty as before; setUnsavedChanges(p, Y) leaves
\* currentContent(p) = Y and p dirty; a saveFile(p) that does not report
\* failure, on a path with pending content Y, leaves currentContent(p) = Y,
\* fileContents[p] = Y, p not dirty and without unsaved content.
C1_DirtyStateLaw ==
    [][\A p \in Paths :
        /\ (lastCall'.op = "setFileContents" /\ lastCall'.file = p /\ ~HasUnsaved(p))
              => (currentContent(p)' = lastCall'.arg /\ (IsDirty(p)' <=> IsDirty(p)))
        /\ (lastCall'.op = "setUnsavedChanges" /\ lastCall'.file = p)
              => (currentContent(p)' = lastCall'.arg /\ IsDirty(p)')
        /\ (lastCall'.op = "saveFile" /\ lastCall'.file = p
                /\ lastCall'.ret # "false" /\ HasUnsaved(p))
              => /\ currentContent(p)' = Get(unsavedChanges, p)
                 /\ fileContents'[p] = Get(unsavedChanges, p)
                 /\ ~IsDirty(p)'
                 /\ ~HasUnsaved(p)'
      ]_vars

C7_RecordNeverLost ==
    [][\A p \in Paths :
        fileContents[p] # undefined =>
          /\ fileContents'[p] # undefined
          /\ fileContents'[p] # fileContents[p] =>
               \/ lastCall'.op = "setFileContents" /\ lastCall'.file = p
               \/ /\ lastCall'.op \in SaveOps
                  /\ HasUnsaved(p)
                  /\ fileContents'[p] = Get(unsavedChanges, p)
      ]_vars

\* C8: setFileContents changes neither unsavedChanges nor dirtyFiles, so a
\* path with pending content U still shows U and is exactly as dirty.
C8_LoadKeepsPendingEdits ==
    [][lastCall'.op = "setFileContents" =>
        /\ unsavedChanges' = unsavedChanges
        /\ dirtyFiles' = dirtyFiles
        /\ \A p \in Paths :
             HasUnsaved(p) => currentContent(p)' = Get(unsavedChanges, p)
      ]_vars

\* C8 witness: setFileContents has just stored content c for a dirty path
\* whose pending content U differs from c; the path still shows U.
C8_Witness ==
    /\ lastCall.op = "setFileContents"
    /\ lastCall.file = "p"
    /\ lastCall.arg = "a"
    /\ fileContents["p"] = "a"
    /\ Get(unsavedChanges, "p") = "b"
    /\ currentContent("p") = "b"
    /\ IsDirty("p")

(***************************************************************************)
(* Properties of the asynchronous store.                                   *)
(***************************************************************************)
\* Call i returns in this step
Returns(i) == i \in 1..Len(calls) /\ calls[i].reply # "pending" /\ calls' = RemoveAt(calls, i)

\* C3 (as claimed): when saveFile(p) returns success for the content Y it
\* captured while p holds a newer pending edit Z, Y is on disk and is the
\* saved content, p is still dirty and currentContent(p) is still Z.
C3_EditDuringSaveKept ==
    [][\A i \in 1..Len(calls), p \in Paths, Y \in Contents :
        ( /\ Returns(i)
          /\ calls[i].kind = "saveFile"
          /\ calls[i].reply = "true"
          /\ p = AwaitedFile(calls[i])
          /\ Y = AwaitedContent(calls[i])
          /\ HasUnsaved(p)
          /\ Get(unsavedChanges, p) # Y )
        => /\ disk[p] = Y
           /\ fileContents'[p] = Y
           /\ IsDirty(p)'
           /\ currentContent(p)' = Get(unsavedChanges, p)
      ]_vars

\* C4 (as claimed): when one write of saveAllFiles fails, every other write
\* of the call has been made and its file is saved and no longer dirty, and
\* the file whose write failed is still dirty.
C4_SaveAllIsolatesFailure ==
    [][\A i \in 1..Len(calls), failed \in Paths :
        ( /\ Returns(i)
          /\ calls[i].kind = "saveAllFiles"
          /\ calls[i].reply # "true"
          /\ failed = AwaitedFile(calls[i]) )
        => /\ IsDirty(failed)'
           /\ \A f \in Paths \ {failed}, c \in Contents :
                ( /\ <<f, c>> \in Range(calls[i].writes)
                  /\ Get(unsavedChanges, f) = c )
                => /\ disk'[f] = c
                   /\ fileContents'[f] = c
                   /\ ~IsDirty(f)'
      ]_vars

\* C5: a saveFile whose write fails (answer false, or a rejection) changes
\* nothing in the store, neither when it starts nor when it returns, and
\* returns false; the main process's answer does not touch the store either.
C5_FailedSaveLeavesStore ==
    [][/\ \A i \in 1..Len(calls) :
            ( /\ Returns(i)
              /\ calls[i].kind = "saveFile"
              /\ calls[i].reply # "true" )
            => /\ UNCHANGED storeVars
               /\ lastCall' = Call("saveFile", AwaitedFile(calls[i]),
                                   AwaitedContent(calls[i]), "false")
       /\ Len(calls') > Len(calls) => UNCHANGED storeVars
       /\ (Len(calls') = Len(calls) /\ \E i \in 1..Len(calls) : calls'[i].reply # calls[i].reply)
            => UNCHANGED storeVars
      ]_vars

\* C5 witness: saveFile("p") has returned false after a failed write; p is
\* still dirty with the content the save had captured, nothing is saved.
C5_Witness ==
    /\ lastCall = Call("saveFile", "p", "a", "false")
    /\ calls = <<>>
    /\ IsDirty("p")
    /\ Get(unsavedChanges, "p") = "a"
    /\ fileContents["p"] = undefined
    /\ disk["p"] = undefined

(***************************************************************************)
(* Properties of the App-level save.                                       *)
(***************************************************************************)
\* C6 (as claimed): when the App-level save returns, a file whose write
\* failed is still dirty, a failure is reported in the answer, and a file
\* that is unmarked had its content written to disk.
C6_AppSaveKeepsFailedDirty ==
    [][\A i \in 1..Len(calls) :
        ( /\ Returns(i)
          /\ calls[i].kind = "saveFiles" )
        => /\ \A f \in calls[i].failed : IsDirty(f)'
           /\ calls[i].failed # {} => calls[i].reply # "undefined"
           /\ \A f \in Paths :
                (IsDirty(f) /\ ~IsDirty(f)') => disk[f] = calls[i].filesToSave[f]
      ]_vars

(***************************************************************************)
(* Properties of the codec.                                                *)
(***************************************************************************)
\* C9 (as claimed): the round-trip law of the codec.  Parsing the text that
\* convertContentToMarkdown produced for a content of supported constructs
\* gives that content back, item for item and field for field.
C9_BodyRoundTrip ==
    stage = "bodyParsed" => parsed.content = view.content

\* C10 (as claimed): the front-matter round trip.  Parsing the file text
\* that convertViewToMarkdown produced gives the same title and the same
\* content back.
C10_FileRoundTrip ==
    stage = "fileParsed" =>
        /\ parsed.title = view.title
        /\ parsed.content = view.content

\* The file values of the code references of a content, each once, in the
\* order of their first appearance
RECURSIVE CodeRefFiles(_, _)
CodeRefFiles(content, seen) ==
    IF content = <<>> THEN seen
    ELSE CodeRefFiles(Tail(content),
                      IF Head(content).type = "monaco"
                      THEN AddUnique(seen, Head(content).file)
                      ELSE seen)

\* The files line of the front matter that was written
WrittenFilesLine == split(markdown, "\n")[3]

\* C11 (as claimed): when a view is serialized for saving, the files list
\* written in the front matter is the list of the file values of the code
\* references in the content, de-duplicated, in first-appearance order.
C11_SavedFilesFromContent ==
    stage = "saved" =>
        WrittenFilesLine
            = <<"f", "i", "l", "e", "s", ":", " ">>
              \o JSONstringify(CodeRefFiles(view.content, <<>>))

(***************************************************************************)
(* Properties of the codec on texts.                                       *)
(***************************************************************************)
\* The lines of the text
TextLines == split(markdown, "\n")

\* The opening fence of the texts: language ts, file p
OpenFence == Fence \o <<"t", "s", ":", "p">>

\* The code reference that a block opened by OpenFence stands for
FencedCodeRef ==
    Monaco(<<"p">>, <<"t", "s">>, <<"p", " ", "E", "d", "i", "t", "o", "r">>)

\* The text starts with a block: OpenFence, inner lines, and the closing
\* fence at line k
BlockUpTo(k) ==
    /\ k \in 2..Len(TextLines)
    /\ TextLines[1] = OpenFence
    /\ TextLines[k] = Fence
    /\ \A i \in 2..(k - 1) : TextLines[i] # Fence

\* C12: a fenced block opened by a line ```L:P and closed by a bare ```
\* line parses to exactly one code reference {file: P, language: L,
\* title: P + " Editor"} whatever lines lie between the fences: the inner
\* lines give no item, and the items after it are those of the lines after
\* the block.
C12_FencedBlockIsOneCodeRef ==
    stage = "textParsed" =>
        \A k \in 2..Len(TextLines) :
            BlockUpTo(k) =>
                parsed.content
                    = <<FencedCodeRef>>
                      \o parseMarkdownToContent(
                             join(SubSeq(TextLines, k + 1, Len(TextLines)), <<"\n">>))

\* A block with a heading and a list line inside has been parsed
C12_Witness ==
    /\ stage = "textParsed"
    /\ TextLines = <<OpenFence, <<"#", " ", "a">>, <<"-", " ", "a">>, Fence>>
    /\ parsed.content = <<FencedCodeRef>>

\* The list line and the delimiter line of the texts
ListLine == <<"-", " ", "a">>

Delimiter == <<"-", "-", "-">>

\* C13 (as claimed), for a text that begins with a list line: the items
\* come in the order of their source lines, so the List of that line comes
\* before the item of every later line, and is the first item of the result.
C13_ListBeforeLaterItems ==
    (stage = "textParsed" /\ TextLines[1] = ListLine) =>
        parsed.content[1].type = "list"

\* C14 (as claimed), for a text of list lines and blank lines that has a
\* list line, a blank line and more lines: the blank line flushes the pending list, so the first List holds
\* the one item before the blank line.
C14_BlankLineEndsList ==
    (/\ stage = "textParsed"
     /\ Len(TextLines) >= 3
     /\ \A i \in 1..Len(TextLines) : TextLines[i] \in {ListLine, <<>>}
     /\ TextLines[1] = ListLine
     /\ TextLines[2] = <<>>) =>
        parsed.content[1] = List(<< <<"a">> >>)

\* C15 (as claimed), for a file text whose first line is --- and whose
\* second --- is line k: every line after line k is body, so the content
\* is the content of those lines, whatever --- lines are among them.
C15_FrontMatterEndsAtSecondDelimiter ==
    stage = "textFileParsed" =>
        \A k \in 2..Len(TextLines) :
            (/\ TextLines[1] = Delimiter
             /\ TextLines[k] = Delimiter
             /\ \A i \in 2..(k - 1) : TextLines[i] # Delimiter) =>
                parsed.content
                    = parseMarkdownToContent(
                          join(SubSeq(TextLines, k + 1, Len(TextLines)), <<"\n">>))

\* C16 (as claimed): a text without --- delimiters that has body content
\* loads, and loadViewContent yields the content of the whole text as body;
\* a text with only an opening --- and content after it loads too.
C16_MissingDelimitersTolerated ==
    (stage = "loaded" /\ lastCall.op = "loadViewContent") =>
        /\ (/\ \A i \in 1..Len(TextLines) : TextLines[i] # Delimiter
            /\ parseMarkdownToContent(markdown) # <<>>) =>
               lastCall.ret
                   = Returned(convertToTipTapFormat(parseMarkdownToContent(markdown)))
        /\ (/\ TextLines[1] = Delimiter
            /\ \A i \in 2..Len(TextLines) : TextLines[i] # Delimiter
            /\ parseMarkdownToContent(join(Tail(TextLines), <<"\n">>)) # <<>>) =>
               ~lastCall.ret.threw

(***************************************************************************)
(* Properties of the configuration service.                                *)
(***************************************************************************)
\* The call op has returned
Done(op) == request.op = op /\ outcome # NoRequest

\* base, to which path is joined with one '/': base without the '/' it
\* ends with
JoinedWithOneSlash(base, path) ==
    (IF base[Len(base)] = "/" THEN SubSeq(base, 1, Len(base) - 1) ELSE base)
    \o <<"/">> \o path

DotSlash == <<".", "/">>

DotDotSlash == <<".", ".", "/">>

\* C17: resolveFilePath(path, base) returns path as it is when path starts
\* with '/', and base joined to path with exactly one '/' between them
\* (also when base ends with '/') when path starts with neither '/', './'
\* nor '../'.
C17_ResolveAbsoluteAndPlain ==
    Done("resolveFilePath") =>
        /\ request.path[1] = "/" => outcome.value = request.path
        /\ (/\ request.path[1] # "/"
            /\ ~startsWith(request.path, DotSlash)
            /\ ~startsWith(request.path, DotDotSlash)) =>
               outcome.value = JoinedWithOneSlash(request.basePath, request.path)

\* resolveFilePath('a.ts', '/w/') has returned '/w/a.ts'
C17_Witness ==
    /\ Done("resolveFilePath")
    /\ request.path = <<"a", ".", "t", "s">>
    /\ request.basePath = <<"/", "w", "/">>
    /\ outcome.value = <<"/", "w", "/", "a", ".", "t", "s">>

\* C18 (as claimed): a path that starts with './' is resolved against the
\* base without keeping the './' segment.
C18_ResolveDropsDotSegment ==
    (Done("resolveFilePath") /\ startsWith(request.path, DotSlash)) =>
        outcome.value
            = JoinedWithOneSlash(request.basePath,
                                 SubSeq(request.path, 3, Len(request.path)))

\* The content is valid JSON with a non-empty string title and a files
\* array of 1 to 50 entries that are all strings
ValidContent(content) ==
    /\ content.json = "object"
    /\ content.title.typeof = "string"
    /\ content.title.v # <<>>
    /\ content.files.typeof = "object"
    /\ Len(content.files.v) \in 1..50
    /\ \A i \in 1..Len(content.files.v) : content.files.v[i].typeof = "string"

\* C19: parseConfiguration returns a configuration exactly when the input
\* is valid JSON with a non-empty string title and a files array of 1 to 50
\* entries that are all strings, and an INVALID_CONFIGURATION error
\* otherwise; 51 files are rejected with a message naming the limit 50.  The
\* files returned have the length and order of the input, each entry being
\* resolveFilePath of the input entry.
C19_ParseConfigurationAccepts ==
    Done("parseConfiguration") =>
        LET content == request.content
            value == outcome.value
        IN  /\ ValidContent(content) =>
                   /\ DOMAIN value = {"title", "files"}
                   /\ value.title = content.title.v
                   /\ Len(value.files) = Len(content.files.v)
                   /\ \A i \in 1..Len(value.files) :
                          value.files[i]
                              = resolveFilePath(content.files.v[i].v, request.basePath)
            /\ ~ValidContent(content) =>
                   /\ "type" \in DOMAIN value
                   /\ value.type = "INVALID_CONFIGURATION"
            /\ (/\ content.json = "object"
                /\ content.title = Str(<<"T">>)
                /\ content.files.typeof = "object"
                /\ Len(content.files.v) = 51) =>
                   /\ "message" \in DOMAIN value
                   /\ value.message = "Configuration cannot have more than 50 files"

\* A configuration of 50 files has been accepted
C19_Witness ==
    /\ Done("parseConfiguration")
    /\ ValidContent(request.content)
    /\ Len(request.content.files.v) = 50
    /\ DOMAIN outcome.value = {"title", "files"}
    /\ Len(outcome.value.files) = 50

\* 'a.txt' and 'a': the paths of the model whose extension is not supported
UnsupportedPaths == { <<"a", ".", "t", "x", "t">>, <<"a">> }

\* The positions of the errors of one type
ErrorsOfType(errors, type) == { i \in 1..Len(errors) : errors[i].type = type }

\* C20: validateConfigurationStructure returns exactly one
\* INVALID_CONFIGURATION error, citing "duplicate", when the files list
\* repeats a path and none when it does not, plus exactly one
\* UNSUPPORTED_FILE_TYPE error, carrying the file path, for each entry whose
\* extension is not supported; nothing else is returned.
C20_ValidateStructureErrors ==
    Done("validateConfigurationStructure") =>
        LET files == request.configuration.files
            errors == outcome.value
            duplicates == ErrorsOfType(errors, "INVALID_CONFIGURATION")
            unsupported == ErrorsOfType(errors, "UNSUPPORTED_FILE_TYPE")
            repeated == \E i, j \in 1..Len(files) : i < j /\ files[i] = files[j]
        IN  /\ duplicates \cup unsupported = 1..Len(errors)
            /\ Cardinality(duplicates) = IF repeated THEN 1 ELSE 0
            /\ \A i \in duplicates :
                   errors[i].message = "Configuration contains duplicate file paths"
            /\ \A path \in FilePaths :
                   Cardinality({ i \in unsupported : errors[i].filePath = path })
                       = IF path \in UnsupportedPaths
                         THEN Cardinality({ i \in 1..Len(files) : files[i] = path })
                         ELSE 0

\* A list that repeats an unsupported path has given three errors
C20_Witness ==
    /\ Done("validateConfigurationStructure")
    /\ request.configuration.files
           = << <<"a", ".", "t", "x", "t">>, <<"a", ".", "t", "x", "t">> >>
    /\ Len(outcome.value) = 3

(***************************************************************************)
(* Properties of the main process.                                         *)
(***************************************************************************)
\* The manifest of a workspace can be read, is JSON and passes ConfigSchema
ManifestValid(workspace) ==
    /\ filestackJson(workspace).read
    /\ filestackJson(workspace).json = "object"
    /\ ConfigSchema(filestackJson(workspace))

\* C21: loadFilestackConfig sends 'config-loaded' only for a manifest that
\* passed ConfigSchema validation; when validation fails no views are sent.
C21_OnlyValidatedViewsSent ==
    sent.configLoaded.from # null => ManifestValid(sent.configLoaded.from)

\* C23: with a workspace open, the 'get-workspace-file-contents' handler
\* returns an entry for every requested file: the content of a file that can
\* be read, and placeholder error text for a file that cannot, whatever
\* happened to the other requested files.
C23_EveryRequestedFileReturned ==
    [][(/\ lastCall'.op = "get-workspace-file-contents"
        /\ UNCHANGED <<workspacePath, loads>>
        /\ workspacePath # null)
       => /\ Range(lastCall'.ret.keys) = Range(lastCall'.file)
          /\ \A f \in Range(lastCall'.file) :
                Get(lastCall'.ret, f) =
                    IF disk[f] # undefined THEN disk[f]
                    ELSE "Error reading file: ENOENT"]_vars

\* A call for two files, the first unreadable and the second readable,
\* returned the placeholder for the first and the content of the second.
C23_Witness ==
    /\ lastCall.op = "get-workspace-file-contents"
    /\ workspacePath # null
    /\ lastCall.file = <<"p", "q">>
    /\ disk["p"] = undefined
    /\ disk["q"] = "a"
    /\ Get(lastCall.ret, "p") = "Error reading file: ENOENT"
    /\ Get(lastCall.ret, "q") = "a"

\* C29: once every manifest load has completed, the views last sent by
\* 'config-loaded' are those of the manifest of the workspace in
\* workspacePath, whatever the order in which the loads completed.
C29_ViewsOfCurrentWorkspace ==
    (/\ loads = <<>>
     /\ workspacePath # null
     /\ ManifestValid(workspacePath)
     /\ sent.configLoaded.from # null
     /\ ManifestValid(sent.configLoaded.from))
    => sent.configLoaded.views = filestackJson(workspacePath).views

\* C22: every projector returns exactly one node per content item, in the
\* order of the items, and the node of an item of unrecognized type is a
\* paragraph with the text "Unknown content type".
C22_OneNodePerItem ==
    stage = "projected" =>
        LET nodes == lastCall.ret.value
        IN  /\ Len(nodes) = Len(view.content)
            /\ \A i \in 1..Len(view.content) :
                  nodes[i] =
                      IF view.content[i] = UnknownItem
                      THEN [type |-> "paragraph",
                            content |-> <<TextNode(UnknownContentType)>>]
                      ELSE convertToTipTapFormat(<<view.content[i]>>)[1]

SaveAllCount == Len(ObjectKeys(unsavedChanges))

\* C25: the count Object.keys(unsavedChanges).length of the Save All button
\* equals the number of dirty files; a saveFile on a store where the two
\* agree leaves them in agreement, and the count is 0 once saveFile has left
\* no file dirty.
C25_SaveAllCountIsDirtyCount ==
    [][(lastCall'.op = "saveFile" /\ SaveAllCount = Len(dirtyFiles))
          => /\ SaveAllCount' = Len(dirtyFiles')
             /\ (dirtyFiles' = <<>> => SaveAllCount' = 0)]_vars

\* C26: one parse-serialize cycle reaches a fixed point: for every text t,
\* parseMarkdownToContent(convertContentToMarkdown(parseMarkdownToContent(t)))
\* equals parseMarkdownToContent(t).
C26_ReparseIsFixedPoint ==
    stage = "reparsed" => parsed.content = view.content

\* A text with a code reference, a list and a further item was parsed,
\* serialized and parsed again.
C26_Witness ==
    /\ stage = "reparsed"
    /\ Len(view.content) >= 3
    /\ \E i \in 1..Len(view.content) : view.content[i].type = "monaco"
    /\ \E i \in 1..Len(view.content) : view.content[i].type = "list"
    /\ \E i \in 1..Len(view.content) : view.content[i].type = "heading"

\* C27: every item parseMarkdownToContent emits satisfies ContentItemSchema:
\* a heading has a level in 1..6 and a non-empty text, a paragraph a
\* non-empty text, a list at least one item and no empty item, a code
\* reference a non-empty file, language and title.
C27_EmittedItemsSatisfySchema ==
    stage = "textParsed" =>
        \A i \in 1..Len(parsed.content) : ContentItemSchema(parsed.content[i])

\* A text holding a line of seven hashes and a fence line without a file
\* was parsed: neither became a heading of level 7 or a code reference.
C27_Witness ==
    /\ stage = "textParsed"
    /\ \E i \in 1..Len(TextLines) : leading(TextLines[i], {"#"}) = 7
    /\ \E i \in 1..Len(TextLines) : TextLines[i] = Fence \o <<"t", "s", ":">>
    /\ Len(parsed.content) >= 2

\* A step in which saveFile or saveAllFiles completes reporting success
SaveSucceeds ==
    /\ lastCall'.op \in SaveOps
    /\ lastCall'.ret = "true"
    /\ \/ UNCHANGED calls
       \/ \E i \in 1..Len(calls) : Returns(i)

\* C28: whenever saveFile or saveAllFiles completes reporting success, the
\* saved content held in memory for every path that is not dirty and has
\* been written to disk equals the content last written to disk for it,
\* however setUnsavedChanges calls interleave with the awaited writes.
C28_MemoryAgreesWithDisk ==
    [][SaveSucceeds
          => \A p \in Paths :
                (~IsDirty(p)' /\ disk'[p] # undefined)
                    => fileContents'[p] = disk'[p]]_vars

(***************************************************************************)
(* Properties of the editor model.                                         *)
(***************************************************************************)
NavigationOps == {"navigateToFile", "navigateToNextFile", "navigateToPreviousFile"}

\* C30: once loadFiles has produced a non-empty file list the active index
\* stays within 0 .. files.length - 1 whatever navigation is called, and a
\* navigation to an index out of that range (next at the last file and
\* previous at the first included) returns false, leaves the state as it
\* was and fires no state-change event.
C30_ActiveIndexStaysValid ==
    [][/\ editorModel'.files # <<>>
            => /\ editorModel'.activeFileIndex >= 0
               /\ editorModel'.activeFileIndex < Len(editorModel'.files)
       /\ (lastCall'.op \in NavigationOps /\ ~ValidIndex(lastCall'.file))
            => /\ lastCall'.ret = "false"
               /\ editorModel' = editorModel
               /\ events' = events
       /\ lastCall'.op = "navigateToNextFile"
            => lastCall'.file = editorModel.activeFileIndex + 1
       /\ lastCall'.op = "navigateToPreviousFile"
            => lastCall'.file = editorModel.activeFileIndex - 1]_vars

\* With three files loaded and the last one active, navigateToNextFile has
\* just returned false.
C30_Witness ==
    /\ Len(editorModel.files) = 3
    /\ editorModel.activeFileIndex = 2
    /\ editorModel.files[3].path = "file3.ts"
    /\ lastCall.op = "navigateToNextFile"
    /\ lastCall.file = 3
    /\ lastCall.ret = "false"

====
